---- MODULE Spec2Model ----
(***************************************************************************)
(* TwitterFetcher (src/twitter_fetcher.py): the concurrent account         *)
(* orchestrator fetch_multiple_accounts, the per-account pipeline          *)
(* get_user_tweets (retry with backoff, age filter) and the thread         *)
(* detection, hydration and merge of _merge_threads.                       *)
(*                                                                         *)
(* asyncio runs the tasks on one thread: a task runs without interruption  *)
(* from one await to the next, so every action below is the code between   *)
(* two awaits of one task.                                                 *)
(***************************************************************************)
EXTENDS Integers, Sequences, FiniteSets

(***************************************************************************)
(* Bounds of the model.                                                    *)
(***************************************************************************)
\* accounts handed to fetch_multiple_accounts
NumAccounts == 3
\* the max_retries the fetcher is constructed with
MaxRetries == 2
\* the max_thread_fetches the fetcher is constructed with
MaxThreadFetches == 1
\* posts in one fetched batch
MaxBatch == 3
\* calls of fetch_multiple_accounts on one TwitterFetcher
MaxCalls == 2

(***************************************************************************)
(* Program constants.                                                      *)
(***************************************************************************)
MaxTweetAgeHours == 9
\* the default of the concurrency argument, the largest the model runs with
DefaultConcurrency == 2
BackoffUnit == 30
BeijingOffset == 8
\* the token the separator "\n---\n" is modelled by inside a merged text
Separator == 0

\* the reading of datetime.now(timezone.utc), in hours since the epoch
Clock == {29}

(***************************************************************************)
(* Raw posts.  A post's text is a sequence of tokens; post k of a batch    *)
(* carries the one-token text <<k>>.  created_at is what the PostSource    *)
(* hands over: absent, a datetime (aware or naive), or a string (the       *)
(* Twitter format, the "YYYY-MM-DD HH:MM:SS" format with anything after    *)
(* its 19th character, or anything else).  wall is the wall-clock hour     *)
(* written in the value and off the UTC offset written with it.            *)
(***************************************************************************)
Stamp(kind, wall, off) == [kind |-> kind, wall |-> wall, off |-> off]

Absent == Stamp("absent", 0, 0)

Garbage == Stamp("bad", 0, 0)

\* tweet_time of lines 78-93: <<>> is None, <<t>> the instant t (UTC hours)
ParseCreatedAt(s) ==
    CASE s.kind = "aware"   -> <<s.wall - s.off>>
      [] s.kind = "naive"   -> <<s.wall>>
      [] s.kind = "twitter" -> <<s.wall - s.off>>
      [] s.kind = "iso"     -> <<s.wall>>
      [] OTHER              -> <<>>

\* created_at_str of lines 101-105: <<>> is '', <<h>> the hour shown in UTC+8
FormatBeijing(tweet_time) ==
    IF tweet_time # <<>> THEN <<tweet_time[1] + BeijingOffset>> ELSE <<>>

\* line 113, and line 255 for a merged post
UrlOf(username, id) == <<"https://twitter.com", username, "status", id>>

\* line 239: url.split('/')[-1]
IdOfUrl(url) == url[Len(url)]

\* a filter that also drops the post made exactly at the cutoff: not the
\* code's, C8 must tell it from TooOld
TooOldStrict(tweet_time, cutoff) == tweet_time # <<>> /\ tweet_time[1] <= cutoff

\* line 96: tweet_time and tweet_time < cutoff_date
TooOld(tweet_time, cutoff) == tweet_time # <<>> /\ tweet_time[1] < cutoff

\* lines 107-114
TweetData(username, tweet) ==
    [username |-> username,
     text |-> tweet.text,
     created_at |-> FormatBeijing(ParseCreatedAt(tweet.created_at)),
     url |-> UrlOf(username, tweet.id),
     is_thread |-> FALSE,
     thread_length |-> 0]

\* lines 74-75 and 96-98: the post reaches results
Kept(tweet, cutoff) ==
    ~tweet.retweeted /\ ~TooOld(ParseCreatedAt(tweet.created_at), cutoff)

\* lines 96-98: the post counts in filtered_count
Filtered(tweet, cutoff) ==
    ~tweet.retweeted /\ TooOld(ParseCreatedAt(tweet.created_at), cutoff)

RECURSIVE FilterTweets(_, _, _)
\* lines 71-115: results, in the order of tweets
FilterTweets(username, tweets, cutoff) ==
    IF tweets = <<>> THEN <<>>
    ELSE LET rest == FilterTweets(username, Tail(tweets), cutoff)
         IN  IF Kept(Head(tweets), cutoff)
             THEN <<TweetData(username, Head(tweets))>> \o rest
             ELSE rest

\* lines 72, 97: filtered_count
FilteredCount(tweets, cutoff) ==
    Cardinality({k \in 1..Len(tweets) : Filtered(tweets[k], cutoff)})

(***************************************************************************)
(* _merge_threads: the reply edges and the root walks.                     *)
(***************************************************************************)
\* tweet_map of lines 150-152, as the set of ids it holds
BatchIds(tweets) == {tweets[k].id : k \in 1..Len(tweets)}

\* tweet_map[id]
TweetOf(tweets, id) == tweets[CHOOSE k \in 1..Len(tweets) : tweets[k].id = id]

\* a reply_to_user that trusts the batch before the metadata: not the code's,
\* C20 must tell it from ReplyToUser
ReplyToUserFromBatchFirst(tweets, tweet) ==
    IF tweet.reply_to \in {tweets[k].id : k \in 1..Len(tweets)} THEN "self"
    ELSE tweet.reply_user

\* lines 161-169: reply_to_user; reply_user is legacy.in_reply_to_user_id_str
\* ("self": the post's own user id, "other": another id, "none": not there)
ReplyToUser(tweets, tweet) ==
    IF tweet.reply_user # "none" THEN tweet.reply_user
    ELSE IF tweet.reply_to \in BatchIds(tweets) THEN "self"
    ELSE "none"

\* lines 158-172: the post gets an edge in reply_to_parent
IsSelfReply(tweets, tweet) ==
    tweet.reply_to # 0 /\ ReplyToUser(tweets, tweet) = "self"

\* reply_to_parent of lines 156-172: child id -> parent id
ReplyToParent(tweets) ==
    [c \in {tweets[k].id : k \in {j \in 1..Len(tweets) : IsSelfReply(tweets, tweets[j])}}
        |-> TweetOf(tweets, c).reply_to]

RECURSIVE Walk(_, _, _)
\* the loop of lines 183-185 (and 228-230, 244-246, 273-275)
Walk(rtp, root, visited) ==
    IF root \in DOMAIN rtp /\ root \notin visited
    THEN Walk(rtp, rtp[root], visited \cup {root})
    ELSE root

RECURSIVE WalkTraceWithoutVisited(_, _, _)
\* a walk that goes on along the parent pointers whatever it has visited: not
\* the code's, C17 must tell it from WalkTrace
WalkTraceWithoutVisited(rtp, root, path) ==
    IF root \in DOMAIN rtp /\ Len(path) <= Cardinality(DOMAIN rtp) + 1
    THEN WalkTraceWithoutVisited(rtp, rtp[root], Append(path, root))
    ELSE [root |-> root, path |-> path]

RECURSIVE WalkTrace(_, _, _)
\* the loop of lines 183-185 with the ids of visited in the order the walk
\* has added them, path; the evaluation follows the loop for at most one
\* iteration more than there are edges
WalkTrace(rtp, root, path) ==
    IF /\ root \in DOMAIN rtp
       /\ \A k \in 1..Len(path) : path[k] # root
       /\ Len(path) <= Cardinality(DOMAIN rtp) + 1
    THEN WalkTrace(rtp, rtp[root], Append(path, root))
    ELSE [root |-> root, path |-> path]

\* lines 181-185, 226-230, 271-275: the walk started from a child's parent
RootFromChild(rtp, child_id) == Walk(rtp, rtp[child_id], {child_id})

\* a walk for the rebuild that starts from the post's parent with nothing
\* visited: not the code's, C19 must tell it from RootOfTweet
RootOfTweetFromParent(rtp, tweet_id) ==
    IF tweet_id \in DOMAIN rtp THEN Walk(rtp, rtp[tweet_id], {}) ELSE tweet_id

\* lines 242-246: the walk started from the post itself
RootOfTweet(rtp, tweet_id) == Walk(rtp, tweet_id, {})

\* root_ids of lines 178-186
RootIds(rtp) == {RootFromChild(rtp, c) : c \in DOMAIN rtp}

\* chain_ids of lines 224-232
ChainIds(rtp, root_id) ==
    {root_id} \cup {c \in DOMAIN rtp : RootFromChild(rtp, c) = root_id}

(***************************************************************************)
(* _fallback_thread_from_batch.                                            *)
(***************************************************************************)
\* lines 270-277: the children that resolve to root_id, in the order of the
\* dict reply_to_parent, which is the order of the batch
ChildChain(tweets, rtp, root_id) ==
    LET ResolvesToRoot(tweet) ==
            tweet.id \in DOMAIN rtp /\ RootFromChild(rtp, tweet.id) = root_id
    IN  SelectSeq(tweets, ResolvesToRoot)

\* chain of lines 266-277
FallbackChain(tweets, rtp, root_id) ==
    (IF root_id \in BatchIds(tweets) THEN <<TweetOf(tweets, root_id)>> ELSE <<>>)
        \o ChildChain(tweets, rtp, root_id)

\* the Python type of the sort key of line 281: created_at, or '' when falsy
KeyClass(s) ==
    CASE s.kind = "aware" -> "aware"
      [] s.kind = "naive" -> "naive"
      [] OTHER            -> "str"

\* the rank of the weekday name of day d in alphabetical order; day 0 of the
\* epoch is a Thursday (Fri < Mon < Sat < Sun < Thu < Tue < Wed)
DowRank(d) == <<4, 0, 2, 3, 1, 5, 6>>[(d % 7) + 1]

\* the sort key of line 281 as a tuple ordered the way Python orders the keys
SortKey(s) ==
    CASE s.kind = "aware"   -> <<s.wall - s.off, 0, 0, 0>>
      [] s.kind = "naive"   -> <<s.wall, 0, 0, 0>>
      [] s.kind = "absent"  -> <<0, 0, 0, 0>>
      [] s.kind = "iso"     -> <<1, s.wall, s.off, 0>>
      [] s.kind = "twitter" -> <<2, DowRank(s.wall \div 24), s.wall, s.off>>
      [] OTHER              -> <<3, 0, 0, 0>>

KeyLess(a, b) ==
    \E k \in 1..4 : a[k] < b[k] /\ \A j \in 1..(k - 1) : a[j] = b[j]

\* chain[a] stands before chain[b] once the chain is sorted: its key is
\* smaller, or the keys are equal and it stood before (list.sort is stable)
SortsBefore(chain, a, b) ==
    LET ka == SortKey(chain[a].created_at)
        kb == SortKey(chain[b].created_at)
    IN  KeyLess(ka, kb) \/ (ka = kb /\ a < b)

\* chain.sort(key=...) of line 281
SortChain(chain) ==
    [p \in 1..Len(chain) |->
        chain[CHOOSE k \in 1..Len(chain) :
                 Cardinality({j \in 1..Len(chain) : SortsBefore(chain, j, k)}) = p - 1]]

\* list.sort raises TypeError when two keys are of types Python cannot order
SortRaises(chain) ==
    \E a, b \in 1..Len(chain) :
        KeyClass(chain[a].created_at) # KeyClass(chain[b].created_at)

\* lines 279-285 for the chain of lines 266-277
FallbackOf(chain) ==
    IF Len(chain) > 1
    THEN IF SortRaises(chain)
         THEN [raised |-> TRUE, texts |-> <<>>]
         ELSE [raised |-> FALSE,
               texts  |-> [k \in 1..Len(chain) |-> SortChain(chain)[k].text]]
    ELSE [raised |-> FALSE, texts |-> <<>>]

\* _fallback_thread_from_batch, lines 264-285: raised says that the sort
\* raised; texts is what is recorded for root_id, <<>> when nothing is
Fallback(tweets, rtp, root_id) ==
    CHOOSE fb \in {FallbackOf(chain) : chain \in {FallbackChain(tweets, rtp, root_id)}} : TRUE

(***************************************************************************)
(* _merge_threads: the rebuild of the result list.                         *)
(***************************************************************************)
\* merged ids that take in the chains no call has hydrated: not the code's,
\* C10 must tell them from MergedIds
MergedIdsOfEveryChain(rtp, thread_texts) ==
    DOMAIN rtp \cup {rtp[c] : c \in DOMAIN rtp}

\* merged_ids of lines 221-233
MergedIds(rtp, thread_texts) ==
    UNION {ChainIds(rtp, root_id) : root_id \in DOMAIN thread_texts}

RECURSIVE JoinTexts(_)
\* "\n---\n".join(texts), line 249
JoinTexts(texts) ==
    IF texts = <<>> THEN <<>>
    ELSE IF Len(texts) = 1 THEN texts[1]
    ELSE texts[1] \o <<Separator>> \o JoinTexts(Tail(texts))

\* a merged post that keeps the url of the member it was built from: not the
\* code's, C27 must tell it from MergedData
MergedDataKeepsUrl(username, tweet_data, root, texts) ==
    [tweet_data EXCEPT !.text = JoinTexts(texts),
                       !.is_thread = TRUE,
                       !.thread_length = Len(texts)]

\* merged_data of lines 250-255
MergedData(username, tweet_data, root, texts) ==
    [tweet_data EXCEPT !.text = JoinTexts(texts),
                       !.is_thread = TRUE,
                       !.thread_length = Len(texts),
                       !.url = UrlOf(username, root)]

\* a rebuild without used_roots: not the code's, C9 must tell it from Rebuild
RECURSIVE RebuildMergesEveryMember(_, _, _, _, _)
RebuildMergesEveryMember(username, results, rtp, thread_texts, used_roots) ==
    IF results = <<>> THEN <<>>
    ELSE LET tweet_data == Head(results)
             tweet_id == IdOfUrl(tweet_data.url)
             root == RootOfTweet(rtp, tweet_id)
         IN  IF tweet_id \in MergedIds(rtp, thread_texts)
             THEN IF root \in DOMAIN thread_texts
                  THEN <<MergedData(username, tweet_data, root, thread_texts[root])>>
                       \o RebuildMergesEveryMember(username, Tail(results), rtp,
                                                   thread_texts, used_roots)
                  ELSE RebuildMergesEveryMember(username, Tail(results), rtp,
                                                thread_texts, used_roots)
             ELSE <<tweet_data>>
                  \o RebuildMergesEveryMember(username, Tail(results), rtp,
                                              thread_texts, used_roots)

RECURSIVE Rebuild(_, _, _, _, _)
\* the loop of lines 236-260
Rebuild(username, results, rtp, thread_texts, used_roots) ==
    IF results = <<>> THEN <<>>
    ELSE LET tweet_data == Head(results)
             tweet_id == IdOfUrl(tweet_data.url)
             root == RootOfTweet(rtp, tweet_id)
         IN  IF tweet_id \in MergedIds(rtp, thread_texts)
             THEN IF root \in DOMAIN thread_texts /\ root \notin used_roots
                  THEN <<MergedData(username, tweet_data, root, thread_texts[root])>>
                       \o Rebuild(username, Tail(results), rtp, thread_texts,
                                  used_roots \cup {root})
                  ELSE Rebuild(username, Tail(results), rtp, thread_texts, used_roots)
             ELSE <<tweet_data>>
                  \o Rebuild(username, Tail(results), rtp, thread_texts, used_roots)

\* lines 217-262: what _merge_threads returns once the roots are processed
MergeResult(username, results, rtp, thread_texts) ==
    IF DOMAIN thread_texts = {} THEN results
    ELSE Rebuild(username, results, rtp, thread_texts, {})

(***************************************************************************)
(* What the PostSource may hand over.                                      *)
(***************************************************************************)
\* a raw post; opt gives everything but the id
RawTweet(id, opt) ==
    [id |-> id, text |-> <<id>>, created_at |-> opt.created_at,
     retweeted |-> opt.retweeted, reply_to |-> opt.reply_to,
     reply_user |-> opt.reply_user]

Opt(created_at, retweeted, reply_to, reply_user) ==
    [created_at |-> created_at, retweeted |-> retweeted,
     reply_to |-> reply_to, reply_user |-> reply_user]

\* the batch whose post k carries id k and the fields posts[k]
BatchOf(posts) == [k \in 1..Len(posts) |-> RawTweet(k, posts[k])]

\* the batches of at most MaxBatch posts with fields from opts, as the
\* sequences of their posts' fields
PostsOf(opts) == UNION {[1..n -> opts] : n \in 0..MaxBatch}

\* the cutoff the fixed clock gives, for choosing times on both sides of it
CutoffAt == (CHOOSE t \in Clock : TRUE) - MaxTweetAgeHours

Old == Stamp("naive", CutoffAt - 1, 0)

New == Stamp("naive", CutoffAt + 1, 0)

\* the representations of created_at, with instants before, at and after the
\* cutoff: none, an unparseable string, naive datetimes, aware datetimes and
\* Twitter-format strings one hour east of UTC, and "YYYY-MM-DD HH:MM:SS"
\* strings followed by a +01:00 the parse never reads
FilterStamps ==
    {Absent, Garbage}
    \cup {Stamp("naive", w, 0) : w \in (CutoffAt - 1)..(CutoffAt + 1)}
    \cup {Stamp(kind, w, 1) : kind \in {"aware", "twitter"}, w \in CutoffAt..(CutoffAt + 1)}
    \cup {Stamp("iso", w, 1) : w \in (CutoffAt - 1)..CutoffAt}

\* a reply target: a post of the batch or one post outside it
ReplyTargets == 1..(MaxBatch + 1)

\* the three small batches the accounts of a whole run answer with: one
\* fresh post; a fresh self-reply followed by its fresh parent; an old post
\* followed by a fresh one
RunPosts ==
    {<<Opt(New, FALSE, 0, "none")>>,
     <<Opt(New, FALSE, 2, "self"), Opt(New, FALSE, 0, "none")>>,
     <<Opt(Old, FALSE, 0, "none"), Opt(New, FALSE, 0, "none")>>}

\* posts that are no replies: originals with every kind of time stamp, and
\* retweets without a time, at the cutoff and before it
FilterPosts ==
    PostsOf({Opt(st, FALSE, 0, "none") : st \in FilterStamps}
            \cup {Opt(st, TRUE, 0, "none") : st \in {Absent, Old, Stamp("naive", CutoffAt, 0)}})

\* fresh posts that reply to nothing, reply to any target with the author
\* metadata naming the account itself, reply to the first post or to the
\* outside post without author metadata, or reply to another account; old
\* posts that reply to nothing or to one of the first two posts
ThreadPosts ==
    PostsOf({Opt(New, FALSE, 0, "none"), Opt(New, FALSE, 1, "other")}
            \cup {Opt(New, FALSE, to, "self") : to \in ReplyTargets}
            \cup {Opt(New, FALSE, to, "none") : to \in {1, MaxBatch + 1}}
            \cup {Opt(Old, FALSE, to, "self") : to \in 0..2})

\* fresh time stamps of every representation, for the sort of line 281: none,
\* naive datetimes an hour apart, Twitter-format strings of a Thursday evening
\* and of the Friday morning after it, and a "YYYY-MM-DD HH:MM:SS" string
SortStamps ==
    {Absent, New, Stamp("naive", CutoffAt + 2, 0),
     Stamp("twitter", CutoffAt + 2, 0), Stamp("twitter", CutoffAt + 5, 0),
     Stamp("iso", CutoffAt + 3, 0)}

\* fresh posts with these time stamps that reply to nothing or, with the
\* author metadata naming the account itself, to any post of the batch
SortPosts ==
    PostsOf({Opt(st, FALSE, to, IF to = 0 THEN "none" ELSE "self") :
                st \in SortStamps, to \in 0..MaxBatch})

\* what get_tweet_by_id(root_id).thread yields as texts: nothing usable, one
\* text, or two texts of which the second is in no batch
RemoteThreads(root_id) == {<<>>, <<<<root_id>>>>, <<<<root_id>>, <<MaxBatch + 2>>>>}

\* str(e) of the exceptions of the PostSource
ErrorMessages == {"429", "Rate limit", "timeout"}

\* line 132
IsRateLimit(error_msg) == error_msg \in {"429", "Rate limit"}

(***************************************************************************)
(* The state.                                                              *)
(***************************************************************************)
VARIABLES
    retry_on_rate_limit,    \* self.retry_on_rate_limit
    enable_thread_merging,  \* self.enable_thread_merging
    now,                    \* the clock
    stats,                  \* self.stats
    opc,                    \* where fetch_multiple_accounts is
    usernames,              \* its argument usernames
    concurrency,            \* its argument concurrency
    semaphore,              \* the value of the asyncio.Semaphore
    results,                \* its results list: <<>> is None, <<l>> the list l
    all_tweets,             \* what it returns
    task,                   \* the locals of each _fetch task
    overtaken,              \* history: a task wrote its slot before an earlier account's task
    calls                   \* history: the calls of fetch_multiple_accounts so far

vars == <<retry_on_rate_limit, enable_thread_merging, now, stats, opc, usernames,
          concurrency, semaphore, results, all_tweets, task, overtaken, calls>>

\* what no step of a call changes
args == <<retry_on_rate_limit, enable_thread_merging, now, usernames, concurrency, calls>>

AllTasks == 1..NumAccounts

Tasks == 1..Len(usernames)

\* the empty dict
EmptyMap == <<>>

Put(m, key, value) == [x \in DOMAIN m \cup {key} |-> IF x = key THEN value ELSE m[x]]

\* the locals of a task that is not inside get_user_tweets, and its history:
\* waits, the backoff sleeps it has begun; thread_calls, its calls of
\* get_tweet_by_id; fallback_roots, the roots whose texts the local fallback
\* has recorded; outcome, how its get_user_tweets ended; fetched, the number
\* of raw posts get_tweets has returned to it; filtered and detected, what it
\* has added to filtered_old_tweets and to threads_detected
NewTask ==
    [pc |-> "new", attempt |-> 0, cutoff_date |-> 0, tweets |-> <<>>,
     results |-> <<>>, reply_to_parent |-> EmptyMap, root_ids |-> {},
     root_id |-> 0, thread_texts |-> EmptyMap, thread_fetches |-> 0,
     root_tweet |-> <<>>, waits |-> <<>>, thread_calls |-> 0,
     fallback_roots |-> {}, outcome |-> "none", fetched |-> 0,
     filtered |-> 0, detected |-> 0]

\* __init__, lines 31-39
NewStats ==
    [total_accounts |-> 0, successful_accounts |-> 0, failed_accounts |-> 0,
     total_tweets |-> 0, filtered_old_tweets |-> 0, threads_detected |-> 0,
     errors |-> <<>>]

\* the state after construction, before fetch_multiple_accounts(names, n, c)
InitWith(names) ==
    /\ retry_on_rate_limit \in BOOLEAN
    /\ enable_thread_merging \in BOOLEAN
    /\ now \in Clock
    /\ stats = NewStats
    /\ opc = "start"
    /\ usernames \in names
    /\ concurrency \in 1..DefaultConcurrency
    /\ semaphore = 0
    /\ results = <<>>
    /\ all_tweets = <<>>
    /\ task = [i \in 1..Len(usernames) |-> NewTask]
    /\ overtaken = FALSE
    /\ calls = 1

Init == InitWith({[k \in 1..n |-> k] : n \in 0..NumAccounts})

\* one account; no fetch fails in the runs that start here
InitOne == InitWith({<<1>>}) /\ concurrency = 1 /\ retry_on_rate_limit

(***************************************************************************)
(* get_user_tweets and _merge_threads, from one await to the next.  t is   *)
(* the task's locals and st the stats as the step has changed them so far. *)
(***************************************************************************)
\* the slot of an earlier account is still None when task i writes its own
Overtakes(i) == \E j \in 1..(i - 1) : results[j] = <<>>

\* a task that writes the first free slot instead of its own: not the
\* code's, C2 must tell it from Succeed
SucceedInCompletionOrder(i, t, st, final) ==
    /\ stats' = [st EXCEPT !.successful_accounts = @ + 1,
                           !.total_tweets = @ + Len(final)]
    /\ results' = [results EXCEPT ![Cardinality({j \in Tasks : results[j] # <<>>}) + 1] = <<final>>]
    /\ task' = [task EXCEPT ![i] = [t EXCEPT !.pc = "pace", !.outcome = "success"]]
    /\ overtaken' = (overtaken \/ Overtakes(i))

\* a success that also counts the account in total_accounts: not the code's,
\* C13 must tell it from Succeed
SucceedCountsTheAccount(i, t, st, final) ==
    /\ stats' = [st EXCEPT !.successful_accounts = @ + 1,
                           !.total_tweets = @ + Len(final),
                           !.total_accounts = @ + 1]
    /\ results' = [results EXCEPT ![i] = <<final>>]
    /\ task' = [task EXCEPT ![i] = [t EXCEPT !.pc = "pace", !.outcome = "success"]]
    /\ overtaken' = (overtaken \/ Overtakes(i))

\* a success that adds the length of the age-filtered list, as it was before
\* the threads were merged: not the code's, C16 must tell it from Succeed
SucceedCountsBeforeMerging(i, t, st, final) ==
    /\ stats' = [st EXCEPT !.successful_accounts = @ + 1,
                           !.total_tweets = @ + Len(t.results)]
    /\ results' = [results EXCEPT ![i] = <<final>>]
    /\ task' = [task EXCEPT ![i] = [t EXCEPT !.pc = "pace", !.outcome = "success"]]
    /\ overtaken' = (overtaken \/ Overtakes(i))

\* lines 125-128, then lines 300-301: the slot is written and the pacing
\* sleep begins
Succeed(i, t, st, final) ==
    /\ stats' = [st EXCEPT !.successful_accounts = @ + 1,
                           !.total_tweets = @ + Len(final)]
    /\ results' = [results EXCEPT ![i] = <<final>>]
    /\ task' = [task EXCEPT ![i] = [t EXCEPT !.pc = "pace", !.outcome = "success"]]
    /\ overtaken' = (overtaken \/ Overtakes(i))

\* a handler that records a failure before every retry: not the code's, C7
\* must tell it from Raise
RaiseCountsEveryFailure(i, t, st, error_msg) ==
    IF IsRateLimit(error_msg) /\ retry_on_rate_limit /\ t.attempt < MaxRetries
    THEN /\ task' = [task EXCEPT ![i] =
                        [t EXCEPT !.pc = "backoff",
                                  !.waits = Append(@, (t.attempt + 1) * BackoffUnit)]]
         /\ stats' = [st EXCEPT !.failed_accounts = @ + 1,
                                !.errors = Append(@, <<usernames[i], error_msg>>)]
         /\ UNCHANGED <<results, overtaken>>
    ELSE /\ stats' = [st EXCEPT !.failed_accounts = @ + 1,
                                !.errors = Append(@, <<usernames[i], error_msg>>)]
         /\ results' = [results EXCEPT ![i] = <<<<>>>>]
         /\ task' = [task EXCEPT ![i] = [t EXCEPT !.pc = "pace", !.outcome = "failure"]]
         /\ overtaken' = (overtaken \/ Overtakes(i))

\* a handler that retries after any error: not the code's, C5 must tell it
\* from Raise
RaiseRetriesAnyError(i, t, st, error_msg) ==
    IF retry_on_rate_limit /\ t.attempt < MaxRetries
    THEN /\ task' = [task EXCEPT ![i] =
                        [t EXCEPT !.pc = "backoff",
                                  !.waits = Append(@, (t.attempt + 1) * BackoffUnit)]]
         /\ stats' = st
         /\ UNCHANGED <<results, overtaken>>
    ELSE /\ stats' = [st EXCEPT !.failed_accounts = @ + 1,
                                !.errors = Append(@, <<usernames[i], error_msg>>)]
         /\ results' = [results EXCEPT ![i] = <<<<>>>>]
         /\ task' = [task EXCEPT ![i] = [t EXCEPT !.pc = "pace", !.outcome = "failure"]]
         /\ overtaken' = (overtaken \/ Overtakes(i))

\* a handler whose backoff sleeps are all of 30: not the code's, C6 must tell
\* it from Raise
RaiseConstantWait(i, t, st, error_msg) ==
    IF IsRateLimit(error_msg) /\ retry_on_rate_limit /\ t.attempt < MaxRetries
    THEN /\ task' = [task EXCEPT ![i] =
                        [t EXCEPT !.pc = "backoff",
                                  !.waits = Append(@, BackoffUnit)]]
         /\ stats' = st
         /\ UNCHANGED <<results, overtaken>>
    ELSE /\ stats' = [st EXCEPT !.failed_accounts = @ + 1,
                                !.errors = Append(@, <<usernames[i], error_msg>>)]
         /\ results' = [results EXCEPT ![i] = <<<<>>>>]
         /\ task' = [task EXCEPT ![i] = [t EXCEPT !.pc = "pace", !.outcome = "failure"]]
         /\ overtaken' = (overtaken \/ Overtakes(i))

\* a handler whose errors list is written from a copy read when it was still
\* empty, so that the entries of the other tasks are lost: not the code's, C15
\* must tell it from Raise
RaiseFromStaleRead(i, t, st, error_msg) ==
    IF IsRateLimit(error_msg) /\ retry_on_rate_limit /\ t.attempt < MaxRetries
    THEN /\ task' = [task EXCEPT ![i] =
                        [t EXCEPT !.pc = "backoff",
                                  !.waits = Append(@, (t.attempt + 1) * BackoffUnit)]]
         /\ stats' = st
         /\ UNCHANGED <<results, overtaken>>
    ELSE /\ stats' = [st EXCEPT !.failed_accounts = @ + 1,
                                !.errors = <<<<usernames[i], error_msg>>>>]
         /\ results' = [results EXCEPT ![i] = <<<<>>>>]
         /\ task' = [task EXCEPT ![i] = [t EXCEPT !.pc = "pace", !.outcome = "failure"]]
         /\ overtaken' = (overtaken \/ Overtakes(i))

\* a handler that gives up after the last retry without recording the
\* account, as a loop left at line 145 would: not the code's, C31 must tell it
\* from Raise
RaiseGivesUpUncounted(i, t, st, error_msg) ==
    IF IsRateLimit(error_msg) /\ retry_on_rate_limit /\ t.attempt < MaxRetries
    THEN /\ task' = [task EXCEPT ![i] =
                        [t EXCEPT !.pc = "backoff",
                                  !.waits = Append(@, (t.attempt + 1) * BackoffUnit)]]
         /\ stats' = st
         /\ UNCHANGED <<results, overtaken>>
    ELSE /\ stats' = IF IsRateLimit(error_msg) /\ retry_on_rate_limit
                     THEN st
                     ELSE [st EXCEPT !.failed_accounts = @ + 1,
                                     !.errors = Append(@, <<usernames[i], error_msg>>)]
         /\ results' = [results EXCEPT ![i] = <<<<>>>>]
         /\ task' = [task EXCEPT ![i] = [t EXCEPT !.pc = "pace", !.outcome = "failure"]]
         /\ overtaken' = (overtaken \/ Overtakes(i))

\* the handler of lines 130-143, then lines 300-301 when it returns []
Raise(i, t, st, error_msg) ==
    IF IsRateLimit(error_msg) /\ retry_on_rate_limit /\ t.attempt < MaxRetries
    THEN /\ task' = [task EXCEPT ![i] =
                        [t EXCEPT !.pc = "backoff",
                                  !.waits = Append(@, (t.attempt + 1) * BackoffUnit)]]
         /\ stats' = st
         /\ UNCHANGED <<results, overtaken>>
    ELSE /\ stats' = [st EXCEPT !.failed_accounts = @ + 1,
                                !.errors = Append(@, <<usernames[i], error_msg>>)]
         /\ results' = [results EXCEPT ![i] = <<<<>>>>]
         /\ task' = [task EXCEPT ![i] = [t EXCEPT !.pc = "pace", !.outcome = "failure"]]
         /\ overtaken' = (overtaken \/ Overtakes(i))

\* the head of the loop of lines 193-198: the budget test, the next root and
\* the call of get_tweet_by_id; past the loop, lines 217-262
NextRoot(i, t, st) ==
    IF t.root_ids = {} \/ t.thread_fetches >= MaxThreadFetches
    THEN Succeed(i, t, st,
                 MergeResult(usernames[i], t.results, t.reply_to_parent, t.thread_texts))
    ELSE /\ \E r \in t.root_ids :
              task' = [task EXCEPT ![i] =
                          [t EXCEPT !.pc = "thread_call", !.root_id = r,
                                    !.root_ids = @ \ {r},
                                    !.thread_calls = @ + 1]]
         /\ stats' = st
         /\ UNCHANGED <<results, overtaken>>

\* lines 211 and 215: the local fallback for the current root, then the loop
\* goes on; a TypeError of the sort leaves _merge_threads
FallbackThenNext(i, t, st) ==
    LET fb == Fallback(t.tweets, t.reply_to_parent, t.root_id)
    IN  IF fb.raised THEN Raise(i, t, st, "TypeError")
        ELSE IF fb.texts # <<>>
             THEN NextRoot(i, [t EXCEPT !.thread_texts = Put(@, t.root_id, fb.texts),
                                        !.fallback_roots = @ \cup {t.root_id},
                                        !.detected = @ + 1],
                           [st EXCEPT !.threads_detected = @ + 1])
             ELSE NextRoot(i, t, st)

(***************************************************************************)
(* The actions.                                                            *)
(***************************************************************************)
\* lines 290-303: the stats field, the semaphore, the slots, the tasks
Start ==
    /\ opc = "start"
    /\ opc' = "gather"
    /\ stats' = [stats EXCEPT !.total_accounts = Len(usernames)]
    /\ semaphore' = concurrency
    /\ results' = [i \in Tasks |-> <<>>]
    /\ task' = [i \in Tasks |-> [task[i] EXCEPT !.pc = "acquire"]]
    /\ UNCHANGED <<args, all_tweets, overtaken>>

\* the caller calls fetch_multiple_accounts on the same TwitterFetcher again,
\* with the same arguments: the stats are those the calls before have left
CallAgain ==
    /\ opc = "returned"
    /\ calls < MaxCalls
    /\ calls' = calls + 1
    /\ opc' = "start"
    /\ semaphore' = 0
    /\ results' = <<>>
    /\ all_tweets' = <<>>
    /\ task' = [i \in Tasks |-> NewTask]
    /\ overtaken' = FALSE
    /\ UNCHANGED <<retry_on_rate_limit, enable_thread_merging, now, usernames,
                   concurrency, stats>>

\* an admission that does not wait for the semaphore: not the code's, C1
\* must tell it from Acquire
AcquireWithoutWaiting(i) ==
    /\ i \in Tasks
    /\ task[i].pc = "acquire"
    /\ semaphore' = semaphore - 1
    /\ task' = [task EXCEPT ![i] = [@ EXCEPT !.pc = "get_user",
                                             !.cutoff_date = now - MaxTweetAgeHours,
                                             !.attempt = 0]]
    /\ UNCHANGED <<args, stats, opc, results, all_tweets, overtaken>>

\* line 297, then lines 299 and 63-68: the task is admitted (the semaphore
\* wakes its waiters in the order they came) and calls get_user_by_screen_name
Acquire(i) ==
    /\ i \in Tasks
    /\ task[i].pc = "acquire"
    /\ semaphore > 0
    /\ \A j \in 1..(i - 1) : task[j].pc # "acquire"
    /\ semaphore' = semaphore - 1
    /\ task' = [task EXCEPT ![i] = [@ EXCEPT !.pc = "get_user",
                                             !.cutoff_date = now - MaxTweetAgeHours,
                                             !.attempt = 0]]
    /\ UNCHANGED <<args, stats, opc, results, all_tweets, overtaken>>

\* line 68 returns, line 69 calls user.get_tweets
GetUserOk(i) ==
    /\ i \in Tasks
    /\ task[i].pc = "get_user"
    /\ task' = [task EXCEPT ![i] = [@ EXCEPT !.pc = "get_tweets"]]
    /\ UNCHANGED <<args, stats, opc, semaphore, results, all_tweets, overtaken>>

\* a handler that gives its slot back for the time of the backoff sleep: not
\* the code's, C32 must tell it from FetchRaisesWith
FetchRaisesWithSlotReleased(i, error_msg) ==
    /\ i \in Tasks
    /\ task[i].pc \in {"get_user", "get_tweets"}
    /\ Raise(i, task[i], stats, error_msg)
    /\ semaphore' = IF task'[i].pc = "backoff" THEN semaphore + 1 ELSE semaphore
    /\ UNCHANGED <<args, opc, all_tweets>>

\* line 68 or line 69 raises an exception whose str is error_msg
FetchRaisesWith(i, error_msg) ==
    /\ i \in Tasks
    /\ task[i].pc \in {"get_user", "get_tweets"}
    /\ Raise(i, task[i], stats, error_msg)
    /\ UNCHANGED <<args, opc, semaphore, all_tweets>>

\* line 68 or line 69 raises
FetchRaises(i) ==
    /\ i \in Tasks
    /\ task[i].pc \in {"get_user", "get_tweets"}
    /\ \E error_msg \in ErrorMessages : FetchRaisesWith(i, error_msg)

\* line 137 returns, line 138 continues with the next attempt
BackoffDone(i) ==
    /\ i \in Tasks
    /\ task[i].pc = "backoff"
    /\ task' = [task EXCEPT ![i] = [@ EXCEPT !.pc = "get_user", !.attempt = @ + 1]]
    /\ UNCHANGED <<args, stats, opc, semaphore, results, all_tweets, overtaken>>

\* line 69 returns tweets: lines 71-123 and _merge_threads up to its first await
GetTweetsReturns(i, tweets) ==
    /\ i \in Tasks
    /\ task[i].pc = "get_tweets"
    /\ LET res == FilterTweets(usernames[i], tweets, task[i].cutoff_date)
           filtered_count == FilteredCount(tweets, task[i].cutoff_date)
           st == [stats EXCEPT !.filtered_old_tweets = @ + filtered_count]
           t == [task[i] EXCEPT !.tweets = tweets, !.results = res,
                                !.fetched = Len(tweets),
                                !.filtered = filtered_count]
           rtp == ReplyToParent(tweets)
       IN  IF enable_thread_merging /\ res # <<>> /\ DOMAIN rtp # {}
           THEN NextRoot(i, [t EXCEPT !.reply_to_parent = rtp, !.root_ids = RootIds(rtp)], st)
           ELSE Succeed(i, t, st, res)
    /\ UNCHANGED <<args, opc, semaphore, all_tweets>>

\* line 69 returns one of the batches
GetTweetsOk(i, batches) ==
    /\ i \in Tasks
    /\ task[i].pc = "get_tweets"
    /\ \E posts \in batches : GetTweetsReturns(i, BatchOf(posts))

\* line 198 returns root_tweet: line 199, and the sleep of line 200 begins
ThreadOk(i) ==
    /\ i \in Tasks
    /\ task[i].pc = "thread_call"
    /\ \E texts \in RemoteThreads(task[i].root_id) :
          task' = [task EXCEPT ![i] = [@ EXCEPT !.pc = "thread_sleep",
                                                !.thread_fetches = @ + 1,
                                                !.root_tweet = texts]]
    /\ UNCHANGED <<args, stats, opc, semaphore, results, all_tweets, overtaken>>

\* a loop body that takes the local fallback's texts whenever the batch gives
\* some and the remote texts only otherwise: not the code's, C28 must tell it
\* from ThreadSleepDone
ThreadSleepDonePrefersLocal(i) ==
    /\ i \in Tasks
    /\ task[i].pc = "thread_sleep"
    /\ IF \/ task[i].root_tweet = <<>>
          \/ Fallback(task[i].tweets, task[i].reply_to_parent, task[i].root_id).texts # <<>>
       THEN FallbackThenNext(i, task[i], stats)
       ELSE NextRoot(i, [task[i] EXCEPT !.thread_texts =
                                            Put(@, task[i].root_id, task[i].root_tweet),
                                        !.detected = @ + 1],
                     [stats EXCEPT !.threads_detected = @ + 1])
    /\ UNCHANGED <<args, opc, semaphore, all_tweets>>

\* line 200 returns: lines 202-211, then the loop goes on
ThreadSleepDone(i) ==
    /\ i \in Tasks
    /\ task[i].pc = "thread_sleep"
    /\ IF task[i].root_tweet # <<>>
       THEN NextRoot(i, [task[i] EXCEPT !.thread_texts =
                                            Put(@, task[i].root_id, task[i].root_tweet),
                                        !.detected = @ + 1],
                     [stats EXCEPT !.threads_detected = @ + 1])
       ELSE FallbackThenNext(i, task[i], stats)
    /\ UNCHANGED <<args, opc, semaphore, all_tweets>>

\* line 198 raises: lines 213-215, then the loop goes on
ThreadRaises(i) ==
    /\ i \in Tasks
    /\ task[i].pc = "thread_call"
    /\ FallbackThenNext(i, task[i], stats)
    /\ UNCHANGED <<args, opc, semaphore, all_tweets>>

\* a task that ends without releasing the semaphore: not the code's, C3 must
\* tell it from PaceDone
PaceDoneKeepsTheSlot(i) ==
    /\ i \in Tasks
    /\ task[i].pc = "pace"
    /\ task' = [task EXCEPT ![i] = [NewTask EXCEPT !.pc = "done", !.outcome = task[i].outcome,
                                                   !.fetched = task[i].fetched,
                                                   !.filtered = task[i].filtered,
                                                   !.detected = task[i].detected]]
    /\ UNCHANGED <<args, stats, opc, semaphore, results, all_tweets, overtaken>>

\* a task that gives its slot back twice when it ends: not the code's, C25
\* must tell it from PaceDone
PaceDoneReleasesTwice(i) ==
    /\ i \in Tasks
    /\ task[i].pc = "pace"
    /\ semaphore' = semaphore + 2
    /\ task' = [task EXCEPT ![i] = [NewTask EXCEPT !.pc = "done", !.outcome = task[i].outcome,
                                                   !.fetched = task[i].fetched,
                                                   !.filtered = task[i].filtered,
                                                   !.detected = task[i].detected]]
    /\ UNCHANGED <<args, stats, opc, results, all_tweets, overtaken>>

\* line 301 returns and the async with of line 297 releases the semaphore;
\* the task ends and its locals with it (the history stays)
PaceDone(i) ==
    /\ i \in Tasks
    /\ task[i].pc = "pace"
    /\ semaphore' = semaphore + 1
    /\ task' = [task EXCEPT ![i] = [NewTask EXCEPT !.pc = "done", !.outcome = task[i].outcome,
                                                   !.fetched = task[i].fetched,
                                                   !.filtered = task[i].filtered,
                                                   !.detected = task[i].detected]]
    /\ UNCHANGED <<args, stats, opc, results, all_tweets, overtaken>>

RECURSIVE FlattenOnePerAccount(_, _)
\* a flattening that takes the first post of every slot only: not the code's,
\* C14 must tell it from Flatten
FlattenOnePerAccount(slots, k) ==
    IF k > Len(slots) THEN <<>>
    ELSE (IF slots[k] # <<>> /\ slots[k][1] # <<>> THEN <<slots[k][1][1]>> ELSE <<>>)
         \o FlattenOnePerAccount(slots, k + 1)

RECURSIVE Flatten(_, _)
\* lines 305-308: the slots that hold a non-empty list, in the order of the slots
Flatten(slots, k) ==
    IF k > Len(slots) THEN <<>>
    ELSE (IF slots[k] # <<>> /\ slots[k][1] # <<>> THEN slots[k][1] ELSE <<>>)
         \o Flatten(slots, k + 1)

\* line 303 returns once every task has finished; lines 305-318
Return ==
    /\ opc = "gather"
    /\ \A i \in Tasks : task[i].pc = "done"
    /\ opc' = "returned"
    /\ all_tweets' = Flatten(results, 1)
    /\ UNCHANGED <<args, stats, semaphore, results, task, overtaken>>

\* the steps of a run
Next ==
    \/ Start
    \/ Return
    \/ \E i \in AllTasks : Acquire(i)
    \/ \E i \in AllTasks : GetUserOk(i)
    \/ \E i \in AllTasks : FetchRaises(i)
    \/ \E i \in AllTasks : BackoffDone(i)
    \/ \E i \in AllTasks : GetTweetsOk(i, RunPosts)
    \/ \E i \in AllTasks : ThreadOk(i)
    \/ \E i \in AllTasks : ThreadSleepDone(i)
    \/ \E i \in AllTasks : ThreadRaises(i)
    \/ \E i \in AllTasks : PaceDone(i)

\* the steps of a run whose account is fetched at the first attempt and whose
\* posts are no replies
NextFilter ==
    \/ Start
    \/ Return
    \/ \E i \in AllTasks : Acquire(i)
    \/ \E i \in AllTasks : GetUserOk(i)
    \/ \E i \in AllTasks : GetTweetsOk(i, FilterPosts)
    \/ \E i \in AllTasks : PaceDone(i)

\* the steps of a run whose account is fetched at the first attempt
NextThread ==
    \/ Start
    \/ Return
    \/ \E i \in AllTasks : Acquire(i)
    \/ \E i \in AllTasks : GetUserOk(i)
    \/ \E i \in AllTasks : GetTweetsOk(i, ThreadPosts)
    \/ \E i \in AllTasks : ThreadOk(i)
    \/ \E i \in AllTasks : ThreadSleepDone(i)
    \/ \E i \in AllTasks : ThreadRaises(i)
    \/ \E i \in AllTasks : PaceDone(i)

\* the steps of the calls on one TwitterFetcher
NextAgain == Next \/ CallAgain

\* one call on a new TwitterFetcher, over up to NumAccounts accounts
Spec == Init /\ [][Next]_vars

\* the event loop runs a task that can run, and every call and every sleep a
\* task awaits ends
FairSpec == Spec /\ WF_vars(Next)

\* one account, every kind of time stamp
SpecFilter == InitOne /\ [][NextFilter]_vars

\* one account, every reply structure
SpecThread == InitOne /\ [][NextThread]_vars

\* one account fetched by up to MaxCalls calls on the same TwitterFetcher
SpecAgain == InitWith({<<1>>}) /\ [][NextAgain]_vars

\* the steps of a run whose account is fetched at the first attempt and whose
\* calls of get_tweet_by_id all raise
NextSort ==
    \/ Start
    \/ Return
    \/ \E i \in AllTasks : Acquire(i)
    \/ \E i \in AllTasks : GetUserOk(i)
    \/ \E i \in AllTasks : GetTweetsOk(i, SortPosts)
    \/ \E i \in AllTasks : ThreadRaises(i)
    \/ \E i \in AllTasks : PaceDone(i)

\* one account, every reply structure over every kind of time stamp, no
\* remote chain
SpecSort == InitOne /\ [][NextSort]_vars

(***************************************************************************)
(* The admission bound.                                                    *)
(***************************************************************************)
\* task i is between its admission and its release
Inside(i) ==
    task[i].pc \in {"get_user", "get_tweets", "backoff", "thread_call",
                    "thread_sleep", "pace"}

\* C1: in every reachable state of fetch_multiple_accounts the number of
\* account tasks between admission and release (running get_user_tweets or
\* sleeping) is at most concurrency
C1_AtMostConcurrencyInside ==
    Cardinality({i \in Tasks : Inside(i)}) <= concurrency

\* as many tasks inside as the semaphore admits, and another one waiting
C1_FullWithOneWaiting ==
    /\ concurrency = DefaultConcurrency
    /\ Cardinality({i \in Tasks : Inside(i)}) = concurrency
    /\ \E i \in Tasks : task[i].pc = "acquire"

(***************************************************************************)
(* The order of the returned list.                                         *)
(***************************************************************************)
\* the posts of all_tweets that carry account u, in their order
PostsOfAccount(u) ==
    LET OfAccount(p) == p.username = u
    IN  SelectSeq(all_tweets, OfAccount)

Range(seq) == {seq[k] : k \in 1..Len(seq)}

\* the index of account u in usernames
IndexOf(u) == CHOOSE i \in Tasks : usernames[i] = u

\* C2: the returned list is the concatenation of the accounts' final lists in
\* the order of usernames: the posts of an account are its final list, and
\* every post of an earlier account precedes every post of a later one
C2_InputOrder ==
    opc = "returned" =>
        /\ \A i \in Tasks : results[i] # <<>>
        /\ \A i \in Tasks : PostsOfAccount(usernames[i]) = results[i][1]
        /\ \A k \in 1..Len(all_tweets) : all_tweets[k].username \in Range(usernames)
        /\ \A a, b \in 1..Len(all_tweets) :
              a < b => IndexOf(all_tweets[a].username) <= IndexOf(all_tweets[b].username)

\* the call has returned the posts of every account although a task wrote
\* its slot before the task of an earlier account
C2_ReturnedAfterOvertaking ==
    /\ opc = "returned"
    /\ overtaken
    /\ Len(usernames) > 1
    /\ \A i \in Tasks : results[i][1] # <<>>

FailsForGood(i) ==
    i \in Tasks /\ task[i].outcome = "none" /\ task'[i].outcome = "failure"

\* the entries of errors that name account u
ErrorsOf(u) == {k \in 1..Len(stats.errors) : stats.errors[k][1] = u}

\* every task of the call has ended in a failure
EveryAccountFailed ==
    Tasks # {} /\ \A i \in Tasks : task[i].outcome = "failure"

\* C4: the failure of one account changes neither the task nor the slot of
\* another account and does not end the call; the call returns a list, and
\* when every account has failed the list is empty, failed_accounts equals
\* total_accounts and errors holds one entry per account
C4_FailureIsolated ==
    /\ [][\A i \in AllTasks :
              FailsForGood(i) =>
                  /\ opc' = opc
                  /\ \A j \in Tasks \ {i} : task'[j] = task[j] /\ results'[j] = results[j]]_vars
    /\ []((opc = "returned" /\ EveryAccountFailed) =>
              /\ all_tweets = <<>>
              /\ stats.failed_accounts = stats.total_accounts
              /\ \A i \in Tasks : Cardinality(ErrorsOf(usernames[i])) = 1)

(***************************************************************************)
(* The handler of get_user_tweets.                                         *)
(***************************************************************************)
\* the attempt of task i fails with error_msg and no retry is left for it
FinalFailure(i, error_msg) ==
    /\ FetchRaisesWith(i, error_msg)
    /\ ~IsRateLimit(error_msg) \/ task[i].attempt >= MaxRetries

\* C5: an attempt that fails with a non-rate-limit error, or with a
\* rate-limit error after max_retries retries, records the account as failed
\* exactly once (failed_accounts + 1, one string naming the account appended
\* to errors), returns an empty list, is followed by no further PostSource
\* call for the account, and leaves successful_accounts and total_tweets
\* unchanged
C5_FailedExactlyOnce ==
    /\ [][\A i \in AllTasks : \A error_msg \in ErrorMessages :
              FinalFailure(i, error_msg) =>
                  /\ stats'.failed_accounts = stats.failed_accounts + 1
                  /\ stats'.errors = Append(stats.errors, <<usernames[i], error_msg>>)
                  /\ results'[i] = <<<<>>>>
                  /\ task'[i].pc = "pace"
                  /\ stats'.successful_accounts = stats.successful_accounts
                  /\ stats'.total_tweets = stats.total_tweets]_vars
    /\ [](\A i \in Tasks :
              /\ Cardinality(ErrorsOf(usernames[i])) <= 1
              /\ task[i].outcome = "failure" =>
                    /\ task[i].pc \in {"pace", "done"}
                    /\ results[i] = <<<<>>>>
                    /\ Cardinality(ErrorsOf(usernames[i])) = 1)

\* an account has failed with a rate-limit error after max_retries retries,
\* another with its first error
C5_FailedAfterRetriesAndAtOnce ==
    /\ \E i \in Tasks :
          /\ task[i].pc = "pace" /\ task[i].outcome = "failure"
          /\ task[i].attempt = MaxRetries
          /\ \E k \in ErrorsOf(usernames[i]) : IsRateLimit(stats.errors[k][2])
    /\ \E i \in Tasks :
          /\ task[i].pc = "pace" /\ task[i].outcome = "failure"
          /\ task[i].attempt = 0
          /\ \E k \in ErrorsOf(usernames[i]) : ~IsRateLimit(stats.errors[k][2])

\* the backoff sleeps of task i so far are 30, 60, ... and none too many
BackoffWithinBounds(i) ==
    /\ Len(task[i].waits) <= MaxRetries
    /\ task[i].attempt <= MaxRetries
    /\ \A k \in 1..Len(task[i].waits) : task[i].waits[k] = k * BackoffUnit
    /\ task[i].pc = "backoff" => Len(task[i].waits) = task[i].attempt + 1
    /\ task[i].pc \in {"get_user", "get_tweets", "thread_call", "thread_sleep"}
          => Len(task[i].waits) = task[i].attempt

\* a sleep of the backoff ends in a retry; an attempt that succeeds or fails
\* with another error than a rate limit begins no backoff sleep
BackoffOnlyAfterRateLimit(i) ==
    /\ (i \in Tasks /\ task[i].pc = "backoff" /\ task'[i] # task[i]) =>
          task'[i].pc = "get_user" /\ task'[i].attempt = task[i].attempt + 1
    /\ (i \in Tasks /\ task[i].pc # "backoff" /\ task'[i].pc = "backoff") =>
          \E error_msg \in ErrorMessages :
              IsRateLimit(error_msg) /\ FetchRaisesWith(i, error_msg)

\* C6 as the spec states it: the k-th consecutive rate-limit failure of an
\* account (k = 1..max_retries) is followed by one backoff sleep of k*30 and a
\* retry; there are at most max_retries sleeps and max_retries+1 attempts,
\* and no sleep follows a success or another error
C6_BackoffAfterEveryRateLimit ==
    /\ [][\A i \in AllTasks :
              /\ \A error_msg \in ErrorMessages :
                    (FetchRaisesWith(i, error_msg) /\ IsRateLimit(error_msg)
                        /\ task[i].attempt < MaxRetries) =>
                        /\ task'[i].pc = "backoff"
                        /\ task'[i].waits =
                              Append(task[i].waits, (task[i].attempt + 1) * BackoffUnit)
              /\ BackoffOnlyAfterRateLimit(i)]_vars
    /\ [](\A i \in Tasks : BackoffWithinBounds(i))

\* C6: with retry_on_rate_limit set, the k-th consecutive rate-limit failure
\* of an account (k = 1..max_retries) is followed by one backoff sleep of k*30
\* and a retry; with retry_on_rate_limit unset a rate-limit failure is final
\* and no backoff sleep begins; there are at most max_retries sleeps and
\* max_retries+1 attempts, and no sleep follows a success or another error
C6_BackoffWhenRetryIsOn ==
    /\ [][\A i \in AllTasks :
              /\ \A error_msg \in ErrorMessages :
                    (FetchRaisesWith(i, error_msg) /\ IsRateLimit(error_msg)
                        /\ task[i].attempt < MaxRetries) =>
                        IF retry_on_rate_limit
                        THEN /\ task'[i].pc = "backoff"
                             /\ task'[i].waits =
                                   Append(task[i].waits, (task[i].attempt + 1) * BackoffUnit)
                        ELSE /\ task'[i].pc = "pace"
                             /\ task'[i].outcome = "failure"
                             /\ task'[i].waits = <<>>
              /\ BackoffOnlyAfterRateLimit(i)]_vars
    /\ [](\A i \in Tasks : BackoffWithinBounds(i))

\* an account sleeps its last backoff, max_retries * 30, after as many
\* rate-limit failures
C6_LastBackoff ==
    \E i \in Tasks :
        /\ task[i].pc = "backoff"
        /\ Len(task[i].waits) = MaxRetries
        /\ task[i].waits[MaxRetries] = MaxRetries * BackoffUnit

\* the step is the one in which get_user_tweets of task i succeeds
Succeeds(i) ==
    i \in Tasks /\ task[i].outcome = "none" /\ task'[i].outcome = "success"

\* C7: an account whose fetch succeeds on some attempt, after any number of
\* rate-limit failures, adds 1 to successful_accounts, nothing to
\* failed_accounts and no entry to errors
C7_SuccessAfterRetries ==
    /\ [][\A i \in AllTasks :
              Succeeds(i) =>
                  /\ stats'.successful_accounts = stats.successful_accounts + 1
                  /\ stats'.failed_accounts = stats.failed_accounts
                  /\ stats'.errors = stats.errors]_vars
    /\ [](/\ \A i \in Tasks : task[i].outcome # "failure" => ErrorsOf(usernames[i]) = {}
          /\ stats.successful_accounts =
                Cardinality({i \in Tasks : task[i].outcome = "success"})
          /\ stats.failed_accounts =
                Cardinality({i \in Tasks : task[i].outcome = "failure"}))

\* an account has succeeded on its last attempt, after max_retries
\* rate-limit failures
C7_SucceededOnLastAttempt ==
    \E i \in Tasks :
        /\ task[i].pc = "pace" /\ task[i].outcome = "success"
        /\ Len(task[i].waits) = MaxRetries
        /\ task[i].attempt = MaxRetries

(***************************************************************************)
(* The age filter.  The predicates read the task of the one account after  *)
(* get_user_tweets has returned: tweets is the fetched batch, results the  *)
(* list the loop of lines 71-115 has built, cutoff_date the cutoff.        *)
(***************************************************************************)
\* get_user_tweets of the one account has returned its list
Fetched == 1 \in Tasks /\ task[1].pc = "pace" /\ task[1].outcome = "success"

\* the entries of the filtered list built from the post with this id
KeptAs(id) ==
    {p \in 1..Len(task[1].results) : IdOfUrl(task[1].results[p].url) = id}

\* the post parses to a time before the cutoff and is not in the list
DroppedWhenOld(tweet) ==
    LET tweet_time == ParseCreatedAt(tweet.created_at)
    IN  (tweet_time # <<>> /\ tweet_time[1] < task[1].cutoff_date)
            => KeptAs(tweet.id) = {}

\* the post parses to the cutoff or a later time and is in the list, or has
\* no time that parses and is in the list with an empty created_at
KeptWhenFreshOrUnknown(tweet) ==
    LET tweet_time == ParseCreatedAt(tweet.created_at)
    IN  /\ (tweet_time # <<>> /\ tweet_time[1] >= task[1].cutoff_date)
              => Cardinality(KeptAs(tweet.id)) = 1
        /\ tweet_time = <<>> =>
              /\ Cardinality(KeptAs(tweet.id)) = 1
              /\ \A p \in KeptAs(tweet.id) : task[1].results[p].created_at = <<>>

\* C8 as the spec states it: no post whose time parses and is before
\* cutoff = now - max_tweet_age_hours is kept; a post at the cutoff or later
\* is kept; a post without a time that parses is kept with an empty
\* created_at
C8_AgeFilterKeepsEveryFreshPost ==
    Fetched =>
        \A k \in 1..Len(task[1].tweets) :
            /\ DroppedWhenOld(task[1].tweets[k])
            /\ KeptWhenFreshOrUnknown(task[1].tweets[k])

\* C8: no post whose time parses and is before cutoff = now -
\* max_tweet_age_hours is kept; a post that is no retweet is kept when its
\* time is the cutoff or later, and kept with an empty created_at when it has
\* no time that parses; a retweet is never kept
C8_AgeFilterOnOriginalPosts ==
    Fetched =>
        \A k \in 1..Len(task[1].tweets) :
            /\ DroppedWhenOld(task[1].tweets[k])
            /\ ~task[1].tweets[k].retweeted => KeptWhenFreshOrUnknown(task[1].tweets[k])
            /\ task[1].tweets[k].retweeted => KeptAs(task[1].tweets[k].id) = {}

\* the batch held an original post before the cutoff, an original post
\* exactly at the cutoff written with a UTC offset, and a retweet without a
\* time
C8_OldFreshAndRetweet ==
    /\ Fetched
    /\ \E k \in 1..Len(task[1].tweets) :
          /\ ~task[1].tweets[k].retweeted
          /\ ParseCreatedAt(task[1].tweets[k].created_at) = <<task[1].cutoff_date - 1>>
    /\ \E k \in 1..Len(task[1].tweets) :
          /\ ~task[1].tweets[k].retweeted
          /\ task[1].tweets[k].created_at.off # 0
          /\ ParseCreatedAt(task[1].tweets[k].created_at) = <<task[1].cutoff_date>>
    /\ \E k \in 1..Len(task[1].tweets) :
          /\ task[1].tweets[k].retweeted
          /\ ParseCreatedAt(task[1].tweets[k].created_at) = <<>>
    /\ Len(task[1].results) = 1

(***************************************************************************)
(* The merge of threads.  The predicates read the task of the one account  *)
(* after get_user_tweets has returned: tweets is the fetched batch,        *)
(* results the age-filtered list handed to _merge_threads, reply_to_parent *)
(* and thread_texts what _merge_threads has built, and the slot of the     *)
(* account holds the final list.                                           *)
(***************************************************************************)
\* the final list of the one account
Final == results[1][1]

\* the ids of the posts of the age-filtered list
FilteredIds == {IdOfUrl(task[1].results[p].url) : p \in 1..Len(task[1].results)}

\* the roots whose chain has been hydrated
Hydrated == DOMAIN task[1].thread_texts

\* the member posts the chain of root has in the fetched batch: the root and
\* the posts whose parent pointers lead to it
Members(root) ==
    {id \in BatchIds(task[1].tweets) :
        \/ id = root
        \/ /\ id \in DOMAIN task[1].reply_to_parent
           /\ RootFromChild(task[1].reply_to_parent, id) = root}

\* the merged posts of the final list for the chain of root
MergedFor(root) ==
    {p \in 1..Len(Final) : Final[p].is_thread /\ IdOfUrl(Final[p].url) = root}

\* the unmerged posts of the final list built from the post with this id
UnmergedOf(id) ==
    {p \in 1..Len(Final) : ~Final[p].is_thread /\ IdOfUrl(Final[p].url) = id}

\* C9 as the spec states it: for every hydrated chain with N member posts in
\* the fetched batch the final list holds exactly one merged post for the
\* chain, with thread_length N, and none of the other members
C9_OneMergedPostOfLengthN ==
    Fetched =>
        \A root \in Hydrated :
            /\ Cardinality(MergedFor(root)) = 1
            /\ \A p \in MergedFor(root) :
                  Final[p].thread_length = Cardinality(Members(root))
            /\ \A id \in Members(root) : UnmergedOf(id) = {}

\* no walk along the parent pointers comes back to a post it has visited
Acyclic ==
    \A c \in DOMAIN task[1].reply_to_parent :
        RootFromChild(task[1].reply_to_parent, c) \notin DOMAIN task[1].reply_to_parent

\* C9: for every hydrated chain of which a member post is in the
\* age-filtered list the final list holds exactly one merged post, and for a
\* hydrated chain without such a member none; the thread_length of the merged
\* post is the number of texts recorded for the chain, which is the number N
\* of member posts in the fetched batch when the local fallback recorded them
\* and the reply edges have no cycle; no member post appears unmerged
C9_OneMergedPostOfRecordedLength ==
    Fetched =>
        \A root \in Hydrated :
            /\ Cardinality(MergedFor(root)) =
                  (IF Members(root) \cap FilteredIds # {} THEN 1 ELSE 0)
            /\ \A p \in MergedFor(root) :
                  /\ Final[p].thread_length = Len(task[1].thread_texts[root])
                  /\ (root \in task[1].fallback_roots /\ Acyclic) =>
                        Final[p].thread_length = Cardinality(Members(root))
            /\ \A id \in Members(root) : UnmergedOf(id) = {}

\* the local fallback has hydrated a chain of MaxBatch member posts whose
\* root the age filter has dropped, and the final list is its merged post
C9_MergedFromFallbackWithoutRoot ==
    /\ Fetched
    /\ \E root \in Hydrated :
          /\ root \in task[1].fallback_roots
          /\ Acyclic
          /\ Cardinality(Members(root)) = MaxBatch
          /\ root \notin FilteredIds
          /\ Len(Final) = 1
          /\ MergedFor(root) = {1}
          /\ Final[1].thread_length = MaxBatch

\* the post of the age-filtered list belongs to no hydrated chain
OutsideHydratedChains(post) ==
    \A root \in Hydrated : IdOfUrl(post.url) \notin Members(root)

\* C10: the posts of the age-filtered list that belong to no hydrated chain
\* are in the output of _merge_threads once each, with every field
\* unchanged and in the order they have in the list
C10_OtherPostsPassThrough ==
    Fetched =>
        LET Passed(post) == ~post.is_thread /\ OutsideHydratedChains(post)
        IN  SelectSeq(Final, Passed) = SelectSeq(task[1].results, OutsideHydratedChains)

\* a chain has been merged, and two posts of another chain, which the budget
\* has left unhydrated, have passed through
C10_MergedBesidePassedPosts ==
    /\ Fetched
    /\ Len(Final) = MaxBatch
    /\ Final[1].is_thread
    /\ \A p \in 2..MaxBatch :
          /\ ~Final[p].is_thread
          /\ IdOfUrl(Final[p].url) \in DOMAIN task[1].reply_to_parent
                \cup {task[1].reply_to_parent[c] : c \in DOMAIN task[1].reply_to_parent}

(***************************************************************************)
(* The thread-fetch budget.                                                *)
(***************************************************************************)
\* the detected roots the loop of lines 193-196 has left unprocessed
Unprocessed == task[1].root_ids

\* the post with this id is in the final list once, as the age filter built it
PassedAsItWas(id) ==
    /\ Cardinality(UnmergedOf(id)) = 1
    /\ \A p \in UnmergedOf(id) :
          Final[p] = TweetData(usernames[1], TweetOf(task[1].tweets, id))

\* C11: a detected root the exhausted budget has left unprocessed is not
\* hydrated, no merged post stands for it, and every post of its chain is in
\* the final list as an individual unmerged post with its own text and url
C11_UnprocessedChainPassesThrough ==
    Fetched =>
        \A root \in Unprocessed :
            /\ root \notin Hydrated
            /\ MergedFor(root) = {}
            /\ \A id \in Members(root) : PassedAsItWas(id)

\* the same for the posts of the chain that the age filter has kept
C11_KeptPostsOfUnprocessedChainPassThrough ==
    Fetched =>
        \A root \in Unprocessed :
            /\ task[1].thread_fetches >= MaxThreadFetches
            /\ root \notin Hydrated
            /\ MergedFor(root) = {}
            /\ \A id \in Members(root) \cap FilteredIds : PassedAsItWas(id)

\* a root is left unprocessed beside a hydrated one, and a post of its chain
\* that the age filter has kept is in the final list
C11_UnprocessedBesideHydrated ==
    /\ Fetched
    /\ Hydrated # {}
    /\ \E root \in Unprocessed : Members(root) \cap FilteredIds # {}

\* C12: every call of get_tweet_by_id, whether it returns or raises, uses one
\* unit of the budget, so a pipeline never makes more than max_thread_fetches
\* calls
C12_EveryCallUsesTheBudget ==
    \A i \in Tasks :
        /\ task[i].thread_calls <= MaxThreadFetches
        /\ task[i].pc \notin {"thread_call", "thread_sleep"} =>
              task[i].thread_fetches = task[i].thread_calls

(***************************************************************************)
(* The statistics of a call.                                               *)
(***************************************************************************)
\* C13: from line 290 on, before any task has run, until the call has
\* returned, total_accounts is len(usernames); no step of a task changes it
C13_TotalAccountsIsLenUsernames ==
    opc # "start" => stats.total_accounts = Len(usernames)

\* the call has returned with every account fetched, some with success and
\* some with failure
C13_ReturnedAfterSuccessAndFailure ==
    /\ opc = "returned"
    /\ Len(usernames) = NumAccounts
    /\ stats.total_accounts = NumAccounts
    /\ stats.successful_accounts > 0
    /\ stats.failed_accounts > 0

RECURSIVE Sum(_)
\* the sum of a sequence of numbers
Sum(seq) == IF seq = <<>> THEN 0 ELSE Head(seq) + Sum(Tail(seq))

\* the length of the final list of every account, as get_user_tweets returned it
FinalLengths == [i \in Tasks |-> Len(results[i][1])]

\* the number of raw posts of every account whose fetch succeeded
RawCounts ==
    [i \in Tasks |-> IF task[i].outcome = "success" THEN task[i].fetched ELSE 0]

\* C14: the returned list is as long as the final lists of the accounts
\* together, and no longer than the raw posts of the successful fetches together
C14_ReturnedLengthIsSumOfFinalLists ==
    opc = "returned" =>
        /\ Len(all_tweets) = Sum(FinalLengths)
        /\ Len(all_tweets) <= Sum(RawCounts)

\* the call has returned for NumAccounts accounts: one failed, one has a
\* final list of two posts, one a final list shorter than its raw posts
C14_ReturnedFewerThanRaw ==
    /\ opc = "returned"
    /\ Len(usernames) = NumAccounts
    /\ \E i \in Tasks : task[i].outcome = "failure"
    /\ \E i \in Tasks : Len(results[i][1]) = 2
    /\ \E i \in Tasks : task[i].outcome = "success" /\ Len(results[i][1]) < task[i].fetched
    /\ Len(all_tweets) = 3

(***************************************************************************)
(* The shared stats under the interleavings of the tasks.                  *)
(***************************************************************************)
\* the tasks whose get_user_tweets has ended this way
Ended(outcome) == {i \in Tasks : task[i].outcome = outcome}

\* what the task has added to total_tweets
TweetsOf(i) == IF task[i].outcome = "success" THEN Len(results[i][1]) ELSE 0

\* C15: in every state the counters are the sums of what the tasks have
\* added, one step each, and errors holds one entry for every failed task:
\* no update is lost under any interleaving
C15_NoStatsUpdateLost ==
    /\ stats.successful_accounts = Cardinality(Ended("success"))
    /\ stats.failed_accounts = Cardinality(Ended("failure"))
    /\ stats.total_tweets = Sum([i \in Tasks |-> TweetsOf(i)])
    /\ stats.filtered_old_tweets = Sum([i \in Tasks |-> task[i].filtered])
    /\ stats.threads_detected = Sum([i \in Tasks |-> task[i].detected])
    /\ Len(stats.errors) = Cardinality(Ended("failure"))
    /\ \A i \in Ended("failure") : Cardinality(ErrorsOf(usernames[i])) = 1

\* two tasks are inside together and every counter has been raised, the
\* failure and the success counters by different tasks
C15_EveryCounterRaisedByConcurrentTasks ==
    /\ concurrency = DefaultConcurrency
    /\ \E i, j \in Tasks : i # j /\ Inside(i) /\ Inside(j)
    /\ stats.successful_accounts > 0
    /\ stats.failed_accounts > 0
    /\ stats.filtered_old_tweets > 0
    /\ stats.threads_detected > 0
    /\ stats.total_tweets > 1

\* the tasks whose get_user_tweets returns with success in this step
NewlySucceeded == {i \in Tasks : task[i].outcome # "success" /\ task'[i].outcome = "success"}

\* the step counts the success of task i: filtering and merging are over, the
\* list in its slot is the merged list, and total_tweets grows by its length
CountsSuccessOf(i) ==
    /\ task'[i].pc = "pace"
    /\ results'[i] = <<MergeResult(usernames[i], task'[i].results,
                                   task'[i].reply_to_parent, task'[i].thread_texts)>>
    /\ stats'.successful_accounts = stats.successful_accounts + 1
    /\ stats'.total_tweets = stats.total_tweets + Len(results'[i][1])

\* C16: successful_accounts and total_tweets change only in the step in which
\* an account's get_user_tweets returns its final list, once per successful
\* account and total_tweets by the length of that list; when the call on a new
\* TwitterFetcher returns, total_tweets is the length of the returned list
C16_SuccessCountedOnceAfterMerging ==
    [][/\ Cardinality(NewlySucceeded) <= 1
       /\ \A i \in NewlySucceeded : CountsSuccessOf(i)
       /\ NewlySucceeded = {} =>
             /\ stats'.successful_accounts = stats.successful_accounts
             /\ stats'.total_tweets = stats.total_tweets
       /\ \A i \in Tasks : task[i].outcome = "success" => task'[i].outcome = "success"
       /\ opc' = "returned" => stats'.total_tweets = Len(all_tweets')]_vars

\* the call has returned with every account fetched; the two posts of one
\* account were merged into one post, which counts as one
C16_ReturnedWithMergedCountedOnce ==
    /\ opc = "returned"
    /\ stats.successful_accounts = NumAccounts
    /\ \E i \in Tasks :
          /\ task[i].fetched = 2
          /\ Len(results[i][1]) = 1
          /\ results[i][1][1].thread_length = 2
    /\ stats.total_tweets = NumAccounts
    /\ Len(all_tweets) = NumAccounts

(***************************************************************************)
(* The root walks.  The predicates read the reply edges _merge_threads has *)
(* built for the one account.                                              *)
(***************************************************************************)
\* the walk of lines 181-185 from this child: where it stops and what it has
\* visited, the child first
WalkFrom(child_id) ==
    WalkTrace(task[1].reply_to_parent, task[1].reply_to_parent[child_id], <<child_id>>)

\* the iterations of the loop of lines 183-185 in the walk from this child
StepsFrom(child_id) == Len(WalkFrom(child_id).path) - 1

\* C17: the root walk from every child of every reply-edge map, cyclic or
\* not, ends after at most as many iterations as there are edges, and the id
\* it returns has no parent edge or is an id the walk had already visited
C17_RootWalkTerminates ==
    1 \in Tasks =>
        \A c \in DOMAIN task[1].reply_to_parent :
            /\ StepsFrom(c) <= Cardinality(DOMAIN task[1].reply_to_parent)
            /\ \/ WalkFrom(c).root \notin DOMAIN task[1].reply_to_parent
               \/ WalkFrom(c).root \in Range(WalkFrom(c).path)
            /\ WalkFrom(c).root = RootFromChild(task[1].reply_to_parent, c)

\* every post of the batch has a parent edge, the edges form one cycle, and
\* the walk from a child has stopped at a visited id after going round it
C17_WalkRoundACycle ==
    /\ 1 \in Tasks
    /\ DOMAIN task[1].reply_to_parent = 1..MaxBatch
    /\ \E c \in DOMAIN task[1].reply_to_parent :
          /\ StepsFrom(c) = MaxBatch - 1
          /\ Range(WalkFrom(c).path) = 1..MaxBatch
          /\ WalkFrom(c).root = c

\* the walk from this child has stopped at an id it had visited
MeetsCycle(child_id) == WalkFrom(child_id).root \in Range(WalkFrom(child_id).path)

\* the id the walk from this child has visited last
LastNew(child_id) == WalkFrom(child_id).path[Len(WalkFrom(child_id).path)]

\* C18: the root reported by a walk that meets a cycle is the last new id on
\* the walked path, not the id whose revisit has stopped the walk
C18_CycleRootIsLastNewId ==
    1 \in Tasks =>
        \A c \in DOMAIN task[1].reply_to_parent :
            MeetsCycle(c) => RootFromChild(task[1].reply_to_parent, c) = LastNew(c)

\* what lines 183-186 report for a walk that meets a cycle: the parent of the
\* last new id, which the walk had visited before
C18_CycleRootIsRevisitedId ==
    1 \in Tasks =>
        \A c \in DOMAIN task[1].reply_to_parent :
            MeetsCycle(c) =>
                /\ RootFromChild(task[1].reply_to_parent, c) = task[1].reply_to_parent[LastNew(c)]
                /\ \E k \in 1..Len(WalkFrom(c).path) :
                      WalkFrom(c).path[k] = RootFromChild(task[1].reply_to_parent, c)

\* the root the walks of lines 181-185, 226-230 and 271-275 give the post
\* with this id, which is its own root when it has no parent edge
OwnRoot(id) ==
    IF id \in DOMAIN task[1].reply_to_parent
    THEN RootFromChild(task[1].reply_to_parent, id)
    ELSE id

\* C19: for every reply-edge map, cyclic or not, the walk of the rebuild
\* loop, which starts from the post itself with nothing visited, gives every
\* post the root the walks from its parent give it; and a post of the
\* age-filtered list is missing from the final list only if the merged post
\* of its own root is there
C19_SameRootInEveryWalk ==
    1 \in Tasks =>
        /\ \A id \in BatchIds(task[1].tweets) :
              RootOfTweet(task[1].reply_to_parent, id) = OwnRoot(id)
        /\ Fetched =>
              \A id \in FilteredIds :
                  UnmergedOf(id) = {} => MergedFor(OwnRoot(id)) # {}

\* a post whose parent pointers lead into a cycle is missing from the final
\* list, where the merged post of the id at which its walk stopped stands
C19_DroppedForRootOnCycle ==
    /\ Fetched
    /\ \E c \in DOMAIN task[1].reply_to_parent :
          /\ MeetsCycle(c)
          /\ OwnRoot(c) # c
          /\ c \in FilteredIds
          /\ UnmergedOf(c) = {}
          /\ MergedFor(OwnRoot(c)) # {}

(***************************************************************************)
(* The reply edges.                                                        *)
(***************************************************************************)
\* the posts of the fetched batch that reply to a post of another account
RepliesToOthers ==
    {k \in 1..Len(task[1].tweets) :
        task[1].tweets[k].reply_to # 0 /\ task[1].tweets[k].reply_user = "other"}

\* reply_to_parent holds an edge only for a post with a reply target whose
\* author is the post's own author, by the metadata or else by the batch, and
\* none for a reply to another account's post
EdgesOnlyForSelfReplies ==
    LET tweets == task[1].tweets
        rtp == ReplyToParent(tweets)
    IN  /\ task[1].reply_to_parent \in {EmptyMap, rtp}
        /\ \A k \in 1..Len(tweets) :
              tweets[k].id \in DOMAIN rtp <=>
                  /\ tweets[k].reply_to # 0
                  /\ \/ tweets[k].reply_user = "self"
                     \/ /\ tweets[k].reply_user = "none"
                        /\ tweets[k].reply_to \in BatchIds(tweets)
        /\ \A c \in DOMAIN rtp : rtp[c] = TweetOf(tweets, c).reply_to
        /\ \A k \in RepliesToOthers : tweets[k].id \notin DOMAIN rtp

\* C20 as the spec states it: edges only for self-replies, and a reply to
\* another account's post is in no merged thread
C20_ReplyToOthersNeverMerged ==
    Fetched =>
        /\ EdgesOnlyForSelfReplies
        /\ \A k \in RepliesToOthers :
              task[1].tweets[k].id \in FilteredIds => PassedAsItWas(task[1].tweets[k].id)

\* C20: edges only for self-replies; a reply to another account's post is a
\* member of a hydrated chain only as its root, and passes through unmerged
\* unless it is the root of a hydrated chain
C20_ReplyToOthersMergedOnlyAsRoot ==
    Fetched =>
        /\ EdgesOnlyForSelfReplies
        /\ \A k \in RepliesToOthers :
              LET id == task[1].tweets[k].id
              IN  /\ \A root \in Hydrated : id \in Members(root) => id = root
                  /\ (id \in FilteredIds /\ id \notin Hydrated) => PassedAsItWas(id)

\* a reply to another account's post, with a self-reply of the account below
\* it, is the root of a hydrated chain and stands merged in the final list
C20_ReplyToOthersMergedAsRoot ==
    /\ Fetched
    /\ \E k \in RepliesToOthers :
          /\ task[1].tweets[k].id \in Hydrated
          /\ task[1].tweets[k].id \in FilteredIds
          /\ MergedFor(task[1].tweets[k].id) # {}
          /\ UnmergedOf(task[1].tweets[k].id) = {}

(***************************************************************************)
(* The local fallback.  The predicates read the task of the one account    *)
(* after get_user_tweets has returned.                                     *)
(***************************************************************************)
\* the post of the fetched batch a recorded fallback text is the text of
PostOfText(text) == TweetOf(task[1].tweets, text[1])

\* post x was created after post y: x has a parseable time, and y has none or
\* an earlier one
CreatedAfter(x, y) ==
    LET tx == ParseCreatedAt(x.created_at)
        ty == ParseCreatedAt(y.created_at)
    IN  tx # <<>> /\ (ty = <<>> \/ tx[1] > ty[1])

\* the texts the local fallback has recorded for root stand in the order of
\* their posts' creation times, the posts without a parseable time first
InTimeOrder(root) ==
    LET texts == task[1].thread_texts[root]
    IN  \A a, b \in 1..Len(texts) :
            a < b => ~CreatedAfter(PostOfText(texts[a]), PostOfText(texts[b]))

\* C21: the texts the local fallback records for a chain are ordered by the
\* members' creation time ascending, members without a parseable time first,
\* for every representation of the time stamp
C21_FallbackTextsInTimeOrder ==
    Fetched => \A root \in task[1].fallback_roots : InTimeOrder(root)

\* the same for the chains whose members all carry a datetime
C21_DatetimeChainsInTimeOrder ==
    Fetched =>
        \A root \in task[1].fallback_roots :
            (\A k \in 1..Len(task[1].thread_texts[root]) :
                KeyClass(PostOfText(task[1].thread_texts[root][k]).created_at) = "naive")
            => InTimeOrder(root)

\* the local fallback has recorded a chain of MaxBatch datetime posts that the
\* batch lists latest first, in the order of their times
C21_DatetimeChainSorted ==
    /\ Fetched
    /\ \E root \in task[1].fallback_roots :
          /\ Len(task[1].thread_texts[root]) = MaxBatch
          /\ task[1].thread_texts[root][1] = <<MaxBatch>>
          /\ CreatedAfter(task[1].tweets[1], task[1].tweets[MaxBatch])
          /\ \A k \in 1..Len(task[1].thread_texts[root]) :
                KeyClass(PostOfText(task[1].thread_texts[root][k]).created_at) = "naive"

\* the roots for which the local fallback has run: those the loop of lines
\* 193-215 has processed and the remote call has not hydrated
FallbackRan ==
    (RootIds(task[1].reply_to_parent) \ task[1].root_ids)
        \ (Hydrated \ task[1].fallback_roots)

\* C22: whenever the local fallback runs for a root and the batch holds at
\* least one post of its chain, be it a single one, the root is recorded as
\* hydrated with the texts of those posts and threads_detected grows by one
C22_FallbackRecordsAnyChain ==
    Fetched =>
        /\ \A root \in FallbackRan :
              Members(root) # {} =>
                  /\ root \in task[1].fallback_roots
                  /\ Len(task[1].thread_texts[root]) >= 1
        /\ stats.threads_detected = Cardinality(Hydrated)

\* what lines 279-285 do: the root is recorded only when the batch holds more
\* than one entry of its chain
C22_FallbackRecordsChainsOfTwo ==
    Fetched =>
        /\ \A root \in FallbackRan :
              root \in task[1].fallback_roots <=>
                  Len(FallbackChain(task[1].tweets, task[1].reply_to_parent, root)) > 1
        /\ stats.threads_detected = Cardinality(Hydrated)

\* get_user_tweets of the one account has ended after at least one call of
\* get_tweet_by_id, all of which have raised in the runs of SpecSort
EndedAfterRemoteError == 1 \in Tasks /\ task[1].pc = "pace" /\ task[1].thread_calls > 0

\* the account has succeeded: every root has had its turn, the account counts
\* as successful, errors is empty, and every post of the age-filtered list is
\* in the final list, as it was or inside the merged post of its root
SucceededWithEveryPost ==
    /\ task[1].outcome = "success"
    /\ task[1].root_ids = {}
    /\ stats.successful_accounts = 1
    /\ stats.failed_accounts = 0
    /\ stats.errors = <<>>
    /\ \A id \in FilteredIds : UnmergedOf(id) # {} \/ MergedFor(OwnRoot(id)) # {}

\* C23: an error raised by get_tweet_by_id never makes the account fail: the
\* local fallback runs, the loop goes on with the next root, the account is
\* counted as successful, errors gets no entry and no post is lost
C23_RemoteErrorNeverFailsAccount ==
    EndedAfterRemoteError => SucceededWithEveryPost

\* the sort of line 281 can order the keys of every chain of the batch
KeysCompare ==
    \A root \in RootIds(ReplyToParent(task[1].tweets)) :
        LET chain == FallbackChain(task[1].tweets, ReplyToParent(task[1].tweets), root)
        IN  Len(chain) > 1 => ~SortRaises(chain)

\* the same when the created_at values of every chain are of one Python type
C23_RemoteErrorSurvivedWhenKeysCompare ==
    (EndedAfterRemoteError /\ KeysCompare) => SucceededWithEveryPost

(***************************************************************************)
(* The pacing of the remote calls.                                         *)
(***************************************************************************)
\* task i calls get_tweet_by_id in this step
CallsRemote(i) == task'[i].thread_calls > task[i].thread_calls

\* C24: every call of get_tweet_by_id, whether it returns or raises, is
\* followed by one sleep of request_delay before the same pipeline calls
\* get_tweet_by_id again: a pipeline that has called before calls again only
\* in the step that ends that sleep
C24_SleepAfterEveryRemoteCall ==
    [][\A i \in Tasks :
          (CallsRemote(i) /\ task[i].thread_calls > 0) => task[i].pc = "thread_sleep"]_vars

\* get_user_tweets of task i returns in this step, with posts or with []
ReturnsFromFetch(i) == task[i].outcome = "none" /\ task'[i].outcome # "none"

\* task i ends in this step
Ends(i) == task[i].pc = "pace" /\ task'[i].pc = "done"

\* C25: a task whose get_user_tweets returns begins the sleep of
\* request_delay with its slot still held; the semaphore grows only by one
\* and only in the step in which a task ends its sleep, once per task; so the
\* free slots are always those not held by a task between its admission and
\* the end of its sleep, and no waiting task is admitted during the sleep
C25_SlotHeldThroughPacingSleep ==
    [][opc # "start" =>
          /\ \A i \in Tasks :
                /\ ReturnsFromFetch(i) => (task'[i].pc = "pace" /\ semaphore' = semaphore)
                /\ task[i].pc = "done" => task'[i].pc = "done"
          /\ semaphore' > semaphore =>
                /\ semaphore' = semaphore + 1
                /\ Cardinality({i \in Tasks : Ends(i)}) = 1
          /\ (\E i \in Tasks : Ends(i)) => semaphore' = semaphore + 1
          /\ semaphore' = concurrency - Cardinality({i \in Tasks : Inside(i)'})]_vars

\* every slot is held, one of them by a task that has failed and is in its
\* pacing sleep, and another task waits for admission
C25_WaitingDuringPacingSleep ==
    /\ semaphore = 0
    /\ \E i \in Tasks : task[i].pc = "pace" /\ task[i].outcome = "failure"
    /\ \E j \in Tasks : task[j].pc = "acquire"

\* C26: the calls of get_tweet_by_id of all the accounts of one call of
\* fetch_multiple_accounts together never exceed max_thread_fetches
C26_BudgetBoundsTheWholeRun ==
    Sum([i \in Tasks |-> task[i].thread_calls]) <= MaxThreadFetches

\* what line 192 gives: every pipeline counts its own calls, and the calls
\* that have returned never exceed max_thread_fetches in any one pipeline
C26_BudgetBoundsEachPipeline ==
    \A i \in Tasks : task[i].thread_fetches <= MaxThreadFetches

(***************************************************************************)
(* The merged post.                                                        *)
(***************************************************************************)
\* the first entry of the age-filtered list that is a member of the chain
FirstMember(root) ==
    task[1].results[CHOOSE p \in 1..Len(task[1].results) :
        /\ IdOfUrl(task[1].results[p].url) \in Members(root)
        /\ \A q \in 1..(p - 1) : IdOfUrl(task[1].results[q].url) \notin Members(root)]

\* what the claim says of the merged post of root: the url of (account,
\* root), the recorded texts joined in recorded order, is_thread, and the
\* number of texts; everything else as in the member it was built from
MergedAsClaimed(root) ==
    [FirstMember(root) EXCEPT
        !.url = <<"https://twitter.com", usernames[1], "status", root>>,
        !.text = JoinTexts(task[1].thread_texts[root]),
        !.is_thread = TRUE,
        !.thread_length = Len(task[1].thread_texts[root])]

\* C27: for every hydrated chain with a member in the age-filtered list the
\* final list holds the merged post with the root's url, the joined texts,
\* is_thread and the number of texts, whichever member comes first in the
\* list and whether or not the root is in the list; and every merged post of
\* the final list is such a post
C27_MergedPostCarriesRootAndTexts ==
    Fetched =>
        /\ \A root \in Hydrated :
              Members(root) \cap FilteredIds # {} =>
                  \E p \in 1..Len(Final) : Final[p] = MergedAsClaimed(root)
        /\ \A p \in 1..Len(Final) :
              Final[p].is_thread =>
                  \E root \in Hydrated :
                      /\ Members(root) \cap FilteredIds # {}
                      /\ Final[p] = MergedAsClaimed(root)

\* the remote call has hydrated, with two texts, a chain whose root is not in
\* the batch, and the merged post stands where the first reply stood
C27_MergedForRootOutsideTheList ==
    /\ Fetched
    /\ \E root \in Hydrated :
          /\ root \notin FilteredIds
          /\ root \notin task[1].fallback_roots
          /\ Len(task[1].thread_texts[root]) = 2
          /\ \E p \in 1..Len(Final) :
                /\ Final[p] = MergedAsClaimed(root)
                /\ Final[p].text = <<root, Separator, MaxBatch + 2>>
                /\ IdOfUrl(Final[p].url) = root

\* the texts the remote call has recorded stand joined in a merged post of
\* the final list, for every such chain with a member in the filtered list
RemoteTextsMerged ==
    \A root \in Hydrated \ task[1].fallback_roots :
        Members(root) \cap FilteredIds # {} =>
            \E p \in 1..Len(Final) :
                /\ Final[p].is_thread
                /\ Final[p].text = JoinTexts(task[1].thread_texts[root])

\* C28: when get_tweet_by_id returns content for a root, that content is
\* recorded for the root and the local fallback does not run for it; the
\* local fallback records texts only in a step in which the call has raised
\* or has returned nothing usable; what is recorded for a root stays, and the
\* remote content is what the merged post holds
C28_RemoteWinsOverLocal ==
    [][\A i \in Tasks :
          /\ (task[i].pc = "thread_sleep" /\ task[i].root_tweet # <<>>) =>
                /\ task[i].root_id \in DOMAIN task'[i].thread_texts
                /\ task'[i].thread_texts[task[i].root_id] = task[i].root_tweet
                /\ task'[i].fallback_roots = task[i].fallback_roots
          /\ (task'[i].pc # "done" /\ task'[i].fallback_roots # task[i].fallback_roots) =>
                \/ task[i].pc = "thread_call"
                \/ task[i].pc = "thread_sleep" /\ task[i].root_tweet = <<>>
          /\ task'[i].pc # "done" =>
                \A r \in DOMAIN task[i].thread_texts :
                    /\ r \in DOMAIN task'[i].thread_texts
                    /\ task'[i].thread_texts[r] = task[i].thread_texts[r]
          /\ Fetched' => RemoteTextsMerged']_vars

\* the remote call has returned one text for the root of a chain of which
\* the batch holds MaxBatch posts, and the merged post holds that one text
C28_RemoteTextInsteadOfLocalChain ==
    /\ Fetched
    /\ \E root \in Hydrated \ task[1].fallback_roots :
          /\ Cardinality(Members(root)) = MaxBatch
          /\ task[1].thread_texts[root] = <<<<root>>>>
          /\ Len(Final) = 1
          /\ Final[1].text = <<root>>
          /\ Final[1].thread_length = 1

\* the posts of the batch that the age filter of lines 96-98 has dropped
DroppedByAge ==
    {id \in BatchIds(task[1].tweets) \ FilteredIds :
        \E k \in 1..Len(task[1].tweets) :
            /\ task[1].tweets[k].id = id
            /\ ~task[1].tweets[k].retweeted}

\* the text of the post with this id stands in a text of the final list
InFinalText(id) ==
    \E p \in 1..Len(Final) : id \in Range(Final[p].text)

\* C29: thread detection, hydration and local reconstruction work on the
\* posts the age filter has kept: a dropped post has no reply edge, no remote
\* call is made and no chain is counted on account of one, and its text is in
\* no post of the final list
C29_DroppedPostsTakeNoPartInThreads ==
    Fetched =>
        /\ \A id \in DroppedByAge :
              /\ id \notin DOMAIN task[1].reply_to_parent
              /\ ~InFinalText(id)
        /\ (\A id \in DOMAIN task[1].reply_to_parent : id \in DroppedByAge) =>
              /\ task[1].thread_calls = 0
              /\ task[1].detected = 0

\* the text of a dropped post stands in the final list only inside a merged
\* post, from the texts recorded for a hydrated root
C29_DroppedTextOnlyInsideMergedPost ==
    Fetched =>
        \A id \in DroppedByAge : \A p \in 1..Len(Final) :
            id \in Range(Final[p].text) =>
                /\ Final[p].is_thread
                /\ IdOfUrl(Final[p].url) \in Hydrated

\* the only reply edge of the batch starts at a dropped post; the remote call
\* for its root has been made and has raised, and the merged post of the
\* final list holds the dropped post's text
C29_DroppedPostMergedByFallback ==
    /\ Fetched
    /\ \E id \in DroppedByAge :
          /\ DOMAIN task[1].reply_to_parent = {id}
          /\ task[1].thread_calls = 1
          /\ task[1].detected = 1
          /\ InFinalText(id)

\* the counters the accounts of a call raise are zero and errors is empty
CountersAtZero ==
    /\ stats.successful_accounts = 0
    /\ stats.failed_accounts = 0
    /\ stats.total_tweets = 0
    /\ stats.filtered_old_tweets = 0
    /\ stats.threads_detected = 0
    /\ stats.errors = <<>>

\* C30: every call of fetch_multiple_accounts, a later call on the same
\* TwitterFetcher included, starts with the counters at zero and errors
\* empty, and returns with successful_accounts + failed_accounts equal to the
\* total_accounts of the call
C30_StatsDescribeOneRun ==
    /\ opc = "start" => CountersAtZero
    /\ opc = "returned" =>
          stats.successful_accounts + stats.failed_accounts = stats.total_accounts

\* the first call on a TwitterFetcher starts from zero and its accounts add up
C30_FirstCallStartsFromZero ==
    calls = 1 =>
        /\ opc = "start" => CountersAtZero
        /\ opc = "returned" =>
              stats.successful_accounts + stats.failed_accounts = stats.total_accounts

\* a later call has returned, and the counters hold the sum of the calls
C30_LaterCallAddsToEarlier ==
    /\ calls = MaxCalls
    /\ opc = "returned"
    /\ stats.total_accounts = Len(usernames)
    /\ stats.successful_accounts + stats.failed_accounts = calls * Len(usernames)

(***************************************************************************)
(* The two outcomes of an account.                                         *)
(***************************************************************************)
\* get_user_tweets of task i returns in this step: the task passes from its
\* attempts to the sleep of line 301
GetUserTweetsReturns(i) ==
    task[i].pc \notin {"pace", "done"} /\ task'[i].pc = "pace"

\* the step records a success and nothing else
RecordsSuccess ==
    /\ stats'.successful_accounts = stats.successful_accounts + 1
    /\ stats'.failed_accounts = stats.failed_accounts
    /\ stats'.errors = stats.errors

\* the step records a failure of account u, with one entry of errors, and
\* nothing else
RecordsFailure(u) ==
    /\ stats'.failed_accounts = stats.failed_accounts + 1
    /\ Len(stats'.errors) = Len(stats.errors) + 1
    /\ SubSeq(stats'.errors, 1, Len(stats.errors)) = stats.errors
    /\ stats'.errors[Len(stats'.errors)][1] = u
    /\ stats'.successful_accounts = stats.successful_accounts

\* C31: on a new TwitterFetcher the step in which an account's
\* get_user_tweets returns records either a success or a failure with one
\* errors entry, never both and never neither; no other step changes
\* successful_accounts, failed_accounts or errors, and get_user_tweets returns
\* once per account; so successful_accounts + failed_accounts never exceeds
\* total_accounts, len(errors) is failed_accounts, and the sum is
\* total_accounts when fetch_multiple_accounts returns
C31_EveryAccountEndsOnce ==
    /\ [][/\ \A i \in Tasks :
                /\ GetUserTweetsReturns(i) =>
                      /\ RecordsSuccess \/ RecordsFailure(usernames[i])
                      /\ ~(RecordsSuccess /\ RecordsFailure(usernames[i]))
                      /\ \A j \in Tasks \ {i} : ~GetUserTweetsReturns(j)
                /\ task[i].pc \in {"pace", "done"} => task'[i].pc \in {"pace", "done"}
          /\ (\A i \in Tasks : ~GetUserTweetsReturns(i)) =>
                /\ stats'.successful_accounts = stats.successful_accounts
                /\ stats'.failed_accounts = stats.failed_accounts
                /\ stats'.errors = stats.errors]_vars
    /\ [](/\ stats.successful_accounts + stats.failed_accounts <= stats.total_accounts
          /\ Len(stats.errors) = stats.failed_accounts
          /\ opc = "returned" =>
                stats.successful_accounts + stats.failed_accounts = stats.total_accounts)

\* the call has returned with retries on; one account failed on a rate limit,
\* which it does only after max_retries backoff sleeps, another failed on
\* another error, and the third succeeded
C31_ReturnedAfterEveryKindOfEnd ==
    /\ opc = "returned"
    /\ retry_on_rate_limit
    /\ stats.total_accounts = NumAccounts
    /\ stats.successful_accounts = 1
    /\ stats.failed_accounts = 2
    /\ \E k, l \in 1..Len(stats.errors) :
          /\ IsRateLimit(stats.errors[k][2])
          /\ ~IsRateLimit(stats.errors[l][2])
          /\ stats.errors[k][1] # stats.errors[l][1]
(***************************************************************************)
(* The slot of an account, from admission to the end of its task.          *)
(***************************************************************************)
\* task i sleeps: a backoff (line 137), the pause after a call of
\* get_tweet_by_id (line 200) or the pause of line 301
Sleeps(i) == task[i].pc \in {"backoff", "thread_sleep", "pace"}

\* task i takes a step
Moves(i) == task'[i] # task[i]

\* task i calls the post source in this step: get_user_by_screen_name,
\* get_tweets or get_tweet_by_id
CallsPostSource(i) ==
    Moves(i) /\ task'[i].pc \in {"get_user", "get_tweets", "thread_call"}

\* C32: a task holds its slot from its admission to the end of the sleep of
\* line 301, through every backoff sleep and every pause between the calls of
\* get_tweet_by_id: the step that ends a sleep other than the last leaves the
\* task inside and the semaphore as it was, the held slots are the tasks
\* inside, a waiting task is admitted only when fewer than concurrency tasks
\* are inside, and with concurrency = 1 no task calls the post source while
\* another task is inside
C32_SlotHeldFromAdmissionToEnd ==
    [][opc # "start" =>
          /\ \A i \in Tasks :
                /\ (Inside(i) /\ ~Ends(i)) => Inside(i)'
                /\ (Sleeps(i) /\ Moves(i) /\ ~Ends(i)) => semaphore' = semaphore
                /\ (~Inside(i) /\ Inside(i)') =>
                      /\ task[i].pc = "acquire"
                      /\ Cardinality({j \in Tasks : Inside(j)}) < concurrency
                      /\ semaphore' = semaphore - 1
                /\ concurrency = 1 =>
                      \A j \in Tasks \ {i} : Inside(i) => ~CallsPostSource(j)
          /\ semaphore + Cardinality({i \in Tasks : Inside(i)}) = concurrency]_vars

\* with concurrency = 1 a task sleeps its last backoff, of max_retries * 30,
\* while another task waits for admission
C32_WaitingThroughTheLastBackoff ==
    /\ concurrency = 1
    /\ semaphore = 0
    /\ \E i, j \in Tasks :
          /\ task[i].pc = "backoff"
          /\ Len(task[i].waits) = MaxRetries
          /\ task[i].waits[MaxRetries] = MaxRetries * BackoffUnit
          /\ task[j].pc = "acquire"

====
